---- MODULE Spec2Model ----
(***************************************************************************)
(* Persistence layer of the nox-ecs World (libs/nox-ecs/src/polars.rs):    *)
(* the column byte-buffer bridge (HostColumn <-> Series), the archetype    *)
(* table conversion (Table <-> DataFrame + ArchetypeMetadata), the         *)
(* directory snapshot (write_to_dir / read_from_dir), the rebuild of a     *)
(* World from a PolarsWorld, and the read-only ColumnStore adapter.        *)
(*                                                                         *)
(* With it, the argument wiring of a CompFn (libs/nox/src/comp_fn.rs).     *)
(*                                                                         *)
(* Conventions.  A Rust Result is a record [tag, val, err] with tag "Ok"   *)
(* or "Err"; a panic (todo!(), unwrap on None) is the tag "Panic".  A      *)
(* string is the sequence of its ASCII codes.  A BTreeMap is a function    *)
(* on a finite set of integers, iterated in ascending key order.  u64      *)
(* is scaled to IdBits bits, so that the overflow of the decimal parser    *)
(* is within reach of names of MaxNameLen characters.                      *)
(***************************************************************************)
EXTENDS Integers, Sequences, FiniteSets

VARIABLES
    bpc, bcol, bser, bback,        \* column bridge: HostColumn <-> Series
    bdata, bout,                   \* byte extraction: ArrayData, Vec<u8> so far
    tpc, ttable, tdf, tmeta, tres, \* Table <-> DataFrame + ArchetypeMetadata
    apc, apw, aid, ares,           \* ColumnStore adapter on a PolarsWorld
    pc, world, polars, dir, wres, tampered, rres, loaded,
                                   \* World snapshot: convert, write, read, rebuild
    cpc, cargs, caliases, cparams, cmut_params, cinner
                                   \* CompFn: compute and build_expr on a Builder

bvars == <<bpc, bcol, bser, bback, bdata, bout>>
tvars == <<tpc, ttable, tdf, tmeta, tres>>
avars == <<apc, apw, aid, ares>>
wvars == <<pc, world, polars, dir, wres, tampered, rres, loaded>>
cvars == <<cpc, cargs, caliases, cparams, cmut_params, cinner>>
vars == <<bvars, tvars, avars, wvars, cvars>>

-----------------------------------------------------------------------------
(* Bounds of the model. *)

IdBits == 4
MaxNameLen == 2
MaxRows == 2
MaxCols == 3
MaxDepth == 2
MaxArgs == 3

-----------------------------------------------------------------------------
(* Results. *)

Nothing == [tag |-> "None", val |-> <<>>, err |-> ""]
Ok(v) == [tag |-> "Ok", val |-> v, err |-> ""]
Err(e) == [tag |-> "Err", val |-> <<>>, err |-> e]
Panic(e) == [tag |-> "Panic", val |-> <<>>, err |-> e]

IsOk(r) == r.tag = "Ok"
IsErr(r) == r.tag = "Err"

-----------------------------------------------------------------------------
(* Sequences and maps. *)

RECURSIVE Concat(_)
Concat(ss) == IF ss = <<>> THEN <<>> ELSE Head(ss) \o Concat(Tail(ss))

RECURSIVE Product(_)
Product(s) == IF s = <<>> THEN 1 ELSE Head(s) * Product(Tail(s))

Min(S) == CHOOSE x \in S : \A y \in S : x <= y

\* The keys of a BTreeMap in iteration order.
RECURSIVE Keys(_)
Keys(S) == IF S = {} THEN <<>> ELSE <<Min(S)>> \o Keys(S \ {Min(S)})

\* BTreeMap::values(): the values in ascending key order.
Values(m) == [i \in 1..Cardinality(DOMAIN m) |-> m[Keys(DOMAIN m)[i]]]

\* BTreeMap::into_iter(): the (key, value) pairs in ascending key order.
Pairs(m) == [i \in 1..Cardinality(DOMAIN m) |->
                <<Keys(DOMAIN m)[i], m[Keys(DOMAIN m)[i]]>>]

EmptyMap == [k \in {} |-> 0]

Insert(m, k, v) == [x \in DOMAIN m \cup {k} |-> IF x = k THEN v ELSE m[x]]

\* FromIterator for a map: later pairs overwrite earlier ones.
RECURSIVE Collect(_)
Collect(ps) ==
    IF ps = <<>> THEN EmptyMap
    ELSE LET rest == Collect(SubSeq(ps, 1, Len(ps) - 1))
             p == ps[Len(ps)]
         IN Insert(rest, p[1], p[2])

\* Iterator::zip: stops at the shorter of the two.
Zip(a, b) == [i \in 1..(IF Len(a) <= Len(b) THEN Len(a) ELSE Len(b)) |->
                <<a[i], b[i]>>]

\* collect::<Result<_, Error>>(): the first Err (or Panic) met, or the items.
FirstBad(rs) == CHOOSE i \in DOMAIN rs :
                    /\ ~IsOk(rs[i])
                    /\ \A j \in DOMAIN rs : j < i => IsOk(rs[j])

CollectResults(rs) ==
    IF \E i \in DOMAIN rs : ~IsOk(rs[i])
    THEN rs[FirstBad(rs)]
    ELSE Ok([i \in DOMAIN rs |-> rs[i].val])

-----------------------------------------------------------------------------
(* ComponentId and its decimal string. *)

MaxComponentId == 2^IdBits - 1

Digit0 == 48
Plus == 43
Minus == 45
LetterA == 97

\* u64::to_string
RECURSIVE to_string(_)
to_string(n) ==
    IF n < 10 THEN <<Digit0 + n>>
    ELSE Append(to_string(n \div 10), Digit0 + (n % 10))

IsDigit(c) == c >= Digit0 /\ c <= Digit0 + 9

\* str::parse::<u64>: an optional leading '+', then digits accumulated with
\* checked_mul / checked_add.
RECURSIVE ParseDigits(_, _)
ParseDigits(s, acc) ==
    IF s = <<>> THEN Ok(acc)
    ELSE IF ~IsDigit(Head(s)) THEN Err("InvalidDigit")
    ELSE IF acc * 10 > MaxComponentId THEN Err("PosOverflow")
    ELSE IF acc * 10 + (Head(s) - Digit0) > MaxComponentId THEN Err("PosOverflow")
    ELSE ParseDigits(Tail(s), acc * 10 + (Head(s) - Digit0))

\* The parser with wrapping instead of checked arithmetic.
RECURSIVE ParseDigitsWrapping(_, _)
ParseDigitsWrapping(s, acc) ==
    IF s = <<>> THEN Ok(acc)
    ELSE IF ~IsDigit(Head(s)) THEN Err("InvalidDigit")
    ELSE ParseDigitsWrapping(Tail(s), (acc * 10 + (Head(s) - Digit0)) % (MaxComponentId + 1))

ParseU64_wrapping(s) ==
    IF s = <<>> THEN Err("Empty")
    ELSE IF Len(s) = 1 /\ Head(s) \in {Plus, Minus} THEN Err("InvalidDigit")
    ELSE IF Head(s) = Plus THEN ParseDigitsWrapping(Tail(s), 0)
    ELSE ParseDigitsWrapping(s, 0)

ParseU64(s) ==
    IF s = <<>> THEN Err("Empty")
    ELSE IF Len(s) = 1 /\ Head(s) \in {Plus, Minus} THEN Err("InvalidDigit")
    ELSE IF Head(s) = Plus THEN ParseDigits(Tail(s), 0)
    ELSE ParseDigits(s, 0)

\* ComponentId::new("entity_id"): a fixed 64-bit hash of the name.
ENTITY_ID_COMPONENT == 13

-----------------------------------------------------------------------------
(* ComponentType. *)

PrimitiveTy == {"F64", "F32", "U64", "U32", "U16", "U8",
                "I64", "I32", "I16", "I8", "Bool"}

ElementSize(ty) ==
    CASE ty \in {"F64", "U64", "I64"} -> 8
      [] ty \in {"F32", "U32", "I32"} -> 4
      [] ty \in {"U16", "I16"} -> 2
      [] ty \in {"U8", "I8", "Bool"} -> 1

arrow_data_type(ty) ==
    CASE ty = "U8" -> "UInt8"
      [] ty = "U16" -> "UInt16"
      [] ty = "U32" -> "UInt32"
      [] ty = "U64" -> "UInt64"
      [] ty = "I8" -> "Int8"
      [] ty = "I16" -> "Int16"
      [] ty = "I32" -> "Int32"
      [] ty = "I64" -> "Int64"
      [] ty = "F32" -> "Float32"
      [] ty = "F64" -> "Float64"
      [] ty = "Bool" -> "Boolean"

ComponentType(ty, shape) == [primitive_ty |-> ty, shape |-> shape]

ComponentType_u64 == ComponentType("U64", <<>>)

-----------------------------------------------------------------------------
(* Arrays (polars_arrow), Series, and the arrow ArrayData exchange form. *)

\* PrimitiveArray<T>: one element per value, each the bytes of a T.
PrimitiveArray(dt, values) ==
    [tag |-> "Primitive", data_type |-> dt, size |-> 0,
     values |-> values, child |-> <<>>]

\* FixedSizeListArray::new(FixedSizeList(Field("inner", dt), size), inner, None)
FixedSizeListArray(size, inner) ==
    [tag |-> "FixedSizeList", data_type |-> "FixedSizeList", size |-> size,
     values |-> <<>>, child |-> <<inner>>]

RECURSIVE ArrayLen(_)
ArrayLen(a) ==
    IF a.tag = "Primitive" THEN Len(a.values)
    ELSE ArrayLen(a.child[1]) \div a.size

Series(name, array) == [name |-> name, array |-> array]

\* Series::to_array_data: the array exported through the C data interface and
\* imported as arrow ArrayData: a primitive node owns one values buffer, a
\* fixed-size-list node owns no buffer and one child.
RECURSIVE to_array_data(_)
to_array_data(a) ==
    IF a.tag = "Primitive"
    THEN [data_type |-> a.data_type, size |-> 0, len |-> Len(a.values),
          child_data |-> <<>>, buffers |-> <<Concat(a.values)>>]
    ELSE [data_type |-> a.data_type, size |-> a.size, len |-> ArrayLen(a),
          child_data |-> <<to_array_data(a.child[1])>>, buffers |-> <<>>]

\* The extraction that takes a node's own buffers ahead of its children.
RECURSIVE recurse_array_data_buffers_first(_, _)
RECURSIVE RecurseChildrenBuffersFirst(_, _)
RecurseChildrenBuffersFirst(children, out) ==
    IF children = <<>> THEN out
    ELSE RecurseChildrenBuffersFirst(Tail(children),
             recurse_array_data_buffers_first(Head(children), out))

recurse_array_data_buffers_first(array_data, out) ==
    RecurseChildrenBuffersFirst(array_data.child_data, out \o Concat(array_data.buffers))

RECURSIVE recurse_array_data(_, _)
RECURSIVE RecurseChildren(_, _)
RecurseChildren(children, out) ==
    IF children = <<>> THEN out
    ELSE RecurseChildren(Tail(children), recurse_array_data(Head(children), out))

recurse_array_data(array_data, out) ==
    RecurseChildren(array_data.child_data, out) \o Concat(array_data.buffers)

to_bytes(series) == recurse_array_data(to_array_data(series.array), <<>>)

-----------------------------------------------------------------------------
(* HostColumn and the column bridge. *)

HostColumn(buf, len, component_id, component_type, asset) ==
    [buf |-> buf, len |-> len, component_id |-> component_id,
     component_type |-> component_type, asset |-> asset]

\* HostColumn::typed_buf::<T>: the buffer seen as a slice of T.
typed_buf(hc) ==
    LET n == ElementSize(hc.component_type.primitive_ty)
    IN [i \in 1..(Len(hc.buf) \div n) |-> SubSeq(hc.buf, (i - 1) * n + 1, i * n)]

prim_array(hc) ==
    PrimitiveArray(arrow_data_type(hc.component_type.primitive_ty), typed_buf(hc))

\* The list array as wide as the first dimension of the shape.
tensor_array_first_dimension(ty, inner) ==
    IF ty.shape = <<>> THEN inner
    ELSE FixedSizeListArray(Head(ty.shape), inner)

tensor_array(ty, inner) ==
    IF ty.shape = <<>> THEN inner
    ELSE FixedSizeListArray(Product(ty.shape), inner)

to_series(hc) ==
    IF hc.component_type.primitive_ty = "Bool" THEN Panic("todo")
    ELSE Ok(Series(to_string(hc.component_id),
                   tensor_array(hc.component_type, prim_array(hc))))

from_series(series, component_type, asset) ==
    LET buf == to_bytes(series)
        len == ArrayLen(series.array)
        component_id == ParseU64(series.name)
    IN IF ~IsOk(component_id) THEN Err("InvalidComponentId")
       ELSE Ok(HostColumn(buf, len, component_id.val, component_type, asset))

-----------------------------------------------------------------------------
(* Table, DataFrame and the archetype table conversion. *)

\* conduit::Metadata of a component, as far as the conversion reads it.
ComponentMetadata(component_id, component_type) ==
    [component_id |-> component_id, component_type |-> component_type]

Column(buffer, metadata) == [buffer |-> buffer, metadata |-> metadata]

ColumnMetadata(metadata, asset) == [metadata |-> metadata, asset |-> asset]

ArchetypeMetadata(columns, entity_map) ==
    [columns |-> columns, entity_map |-> entity_map]

Table(columns, entity_buffer, entity_map) ==
    [columns |-> columns, entity_buffer |-> entity_buffer, entity_map |-> entity_map]

entity_id_string == to_string(ENTITY_ID_COMPONENT)

\* DataFrame::column: the first column of that name, or polars' error.
DataFrameColumn(df, name) ==
    IF \E i \in DOMAIN df : df[i].name = name
    THEN Ok(df[Min({i \in DOMAIN df : df[i].name = name})])
    ELSE Err("Polars")

\* The entity column lookup without its map_err.
EntityColumnUnmapped(df) == DataFrameColumn(df, entity_id_string)

\* df.column(&entity_id_string).map_err(|_| Error::ComponentNotFound)
EntityColumn(df) ==
    IF IsOk(DataFrameColumn(df, entity_id_string))
    THEN DataFrameColumn(df, entity_id_string)
    ELSE Err("ComponentNotFound")

\* One step of the map over the zipped (metadata, series) pairs.
ColumnFromPair(pair) ==
    LET metadata == pair[1]
        series == pair[2]
        buffer == from_series(series, metadata.metadata.component_type, metadata.asset)
    IN IF ~IsOk(buffer) THEN buffer
       ELSE Ok(<<metadata.metadata.component_id,
                 Column(buffer.val, metadata.metadata)>>)

from_dataframe(df, metadata) ==
    LET NotEntity(series) == series.name # entity_id_string
        pairs == Zip(metadata.columns, SelectSeq(df, NotEntity))
        columns == CollectResults([i \in DOMAIN pairs |-> ColumnFromPair(pairs[i])])
        column == EntityColumn(df)
        entity_buffer == from_series(column.val, ComponentType_u64, FALSE)
    IN IF ~IsOk(columns) THEN columns
       ELSE IF ~IsOk(column) THEN column
       ELSE IF ~IsOk(entity_buffer) THEN entity_buffer
       ELSE Ok(Table(Collect(columns.val), entity_buffer.val, metadata.entity_map))

\* A DataFrame holds Series of distinct names and of one length.
UniqueNames(series) ==
    \A i, j \in DOMAIN series : series[i].name = series[j].name => i = j

EqualLengths(series) ==
    \A i, j \in DOMAIN series : ArrayLen(series[i].array) = ArrayLen(series[j].array)

\* FromIterator<Series> for DataFrame: DataFrame::new(..).expect(..), which
\* refuses Series of one name and Series of different lengths.
DataFrameFromIter(series) ==
    IF UniqueNames(series) /\ EqualLengths(series) THEN Ok(series)
    ELSE Panic("could not create DataFrame from iterator")

\* The conversion with the entity buffer's Series ahead of the value columns.
table_to_polars_entity_first(table) ==
    LET cols == Values(table.columns)
        columns == [i \in DOMAIN cols |->
                       ColumnMetadata(cols[i].metadata, cols[i].buffer.asset)]
        metadata == ArchetypeMetadata(columns, table.entity_map)
        buffers == <<table.entity_buffer>> \o [i \in DOMAIN cols |-> cols[i].buffer]
        series == CollectResults([i \in DOMAIN buffers |-> to_series(buffers[i])])
        df == DataFrameFromIter(series.val)
    IN IF ~IsOk(series) THEN series
       ELSE IF ~IsOk(df) THEN df
       ELSE Ok(<<metadata, df.val>>)

\* Table::to_polars: the metadata list and the Series in the same iteration
\* order, the entity buffer's Series chained after the value columns.
table_to_polars(table) ==
    LET cols == Values(table.columns)
        columns == [i \in DOMAIN cols |->
                       ColumnMetadata(cols[i].metadata, cols[i].buffer.asset)]
        metadata == ArchetypeMetadata(columns, table.entity_map)
        buffers == [i \in DOMAIN cols |-> cols[i].buffer] \o <<table.entity_buffer>>
        series == CollectResults([i \in DOMAIN buffers |-> to_series(buffers[i])])
        df == DataFrameFromIter(series.val)
    IN IF ~IsOk(series) THEN series
       ELSE IF ~IsOk(df) THEN df
       ELSE Ok(<<metadata, df.val>>)

-----------------------------------------------------------------------------
(* World, PolarsWorld and the conversion between them. *)

Metadata(archetypes, component_map, tick, entity_len) ==
    [archetypes |-> archetypes, component_map |-> component_map,
     tick |-> tick, entity_len |-> entity_len]

PolarsWorld(archetypes, metadata, assets) ==
    [archetypes |-> archetypes, metadata |-> metadata, assets |-> assets]

World(archetypes, component_map, assets, tick, entity_len) ==
    [archetypes |-> archetypes, component_map |-> component_map,
     assets |-> assets, tick |-> tick, entity_len |-> entity_len]

\* World::to_polars
to_polars(w) ==
    LET ids == Keys(DOMAIN w.archetypes)
        tables == CollectResults([i \in DOMAIN ids |->
                                     table_to_polars(w.archetypes[ids[i]])])
        archetypes == [id \in DOMAIN w.archetypes |->
                          table_to_polars(w.archetypes[id]).val[2]]
        archetype_metadata == [id \in DOMAIN w.archetypes |->
                                  table_to_polars(w.archetypes[id]).val[1]]
    IN IF ~IsOk(tables) THEN tables
       ELSE Ok(PolarsWorld(archetypes,
                           Metadata(archetype_metadata, w.component_map,
                                    w.tick, w.entity_len),
                           w.assets))

\* The rebuild that leaves out the tables whose conversion failed.
TablesFromPolars_dropping_failures(p) ==
    LET pairs == Zip(Pairs(p.archetypes), Values(p.metadata.archetypes))
        good == SelectSeq([i \in DOMAIN pairs |->
                              <<pairs[i][1][1],
                                from_dataframe(pairs[i][1][2], pairs[i][2])>>],
                          LAMBDA x : IsOk(x[2]))
    IN Ok([i \in DOMAIN good |-> <<good[i][1], good[i][2].val>>])

\* The archetypes of try_from: the (id, df) pairs of the table map zipped with
\* the values of the manifest's archetype map, each converted, the first error
\* returned.
TablesFromPolars(p) ==
    LET pairs == Zip(Pairs(p.archetypes), Values(p.metadata.archetypes))
        one(pair) ==
            LET table == from_dataframe(pair[1][2], pair[2])
            IN IF ~IsOk(table) THEN table ELSE Ok(<<pair[1][1], table.val>>)
    IN CollectResults([i \in DOMAIN pairs |-> one(pairs[i])])

\* TryFrom<PolarsWorld> for World
try_from(p) ==
    LET archetypes == TablesFromPolars(p)
    IN IF ~IsOk(archetypes) THEN archetypes
       ELSE Ok(World(Collect(archetypes.val), p.metadata.component_map,
                     p.assets, p.metadata.tick, p.metadata.entity_len))

\* PartialEq for Column: the buffers are equal.
ColumnEq(a, b) == a.buffer = b.buffer

\* PartialEq for Table
TableEq(a, b) ==
    /\ DOMAIN a.columns = DOMAIN b.columns
    /\ \A c \in DOMAIN a.columns : ColumnEq(a.columns[c], b.columns[c])
    /\ a.entity_buffer = b.entity_buffer
    /\ a.entity_map = b.entity_map

\* Equality of two archetype maps, as assert_eq! on World::archetypes takes it.
ArchetypesEq(x, y) ==
    /\ DOMAIN x = DOMAIN y
    /\ \A id \in DOMAIN x : TableEq(x[id], y[id])

-----------------------------------------------------------------------------
(* The snapshot directory: metadata.json, <archetype id>.parquet, assets.bin. *)

\* A file that exists and does not decode.
Garbage == [tag |-> "Garbage", val |-> <<>>, err |-> ""]

Present(file) == file.tag # "None"

\* The byte width of the values of a primitive arrow data type.
ArrowWidth(dt) ==
    CASE dt \in {"UInt8", "Int8", "Boolean"} -> 1
      [] dt \in {"UInt16", "Int16"} -> 2
      [] dt \in {"UInt32", "Int32", "Float32"} -> 4
      [] dt \in {"UInt64", "Int64", "Float64"} -> 8

SameLen(columns) ==
    \A i, j \in DOMAIN columns : columns[i].len = columns[j].len

\* DataFrameConv::to_record_batch: per Series a non-nullable Field of its name
\* and the ArrayData of its array; RecordBatch::try_new refuses no column at
\* all and columns of different lengths.
to_record_batch(df) ==
    LET fields == [i \in DOMAIN df |-> df[i].name]
        columns == [i \in DOMAIN df |-> to_array_data(df[i].array)]
    IN IF columns = <<>> \/ ~SameLen(columns) THEN Err("Arrow")
       ELSE Ok([fields |-> fields, columns |-> columns])

\* The array a reader rebuilds from the schema and the value bytes of a column.
RECURSIVE FromArrayData(_)
FromArrayData(ad) ==
    IF ad.child_data = <<>>
    THEN PrimitiveArray(ad.data_type,
             [i \in 1..ad.len |->
                 SubSeq(ad.buffers[1], (i - 1) * ArrowWidth(ad.data_type) + 1,
                        i * ArrowWidth(ad.data_type))])
    ELSE FixedSizeListArray(ad.size, FromArrayData(ad.child_data[1]))

\* ParquetReader::new(file).finish(): the columns of the file, in file order.
ParquetRead(file) ==
    IF file.tag = "Garbage" THEN Err("Polars")
    ELSE Ok([i \in DOMAIN file.val.fields |->
                Series(file.val.fields[i], FromArrayData(file.val.columns[i]))])

\* serde_json::from_reader of the manifest.
JsonRead(file) == IF file.tag = "Garbage" THEN Err("Json") ELSE Ok(file.val)

\* postcard::from_bytes of the asset blob.
PostcardRead(file) == IF file.tag = "Garbage" THEN Err("Postcard") ELSE Ok(file.val)

Dir(manifest, parquet, assets) ==
    [manifest |-> manifest, parquet |-> parquet, assets |-> assets]

\* The files written with the manifest last but for the asset blob.
WriteSteps_manifest_last(p) ==
    LET ids == Keys(DOMAIN p.archetypes)
        one(id) == <<1, id, to_record_batch(p.archetypes[id])>>
    IN [i \in DOMAIN ids |-> one(ids[i])]
       \o <<<<0, 0, Ok(p.metadata)>>>>
       \o <<<<2, 0, Ok(p.assets)>>>>

\* The files write_to_dir writes, in the order it writes them: the manifest,
\* one file per archetype in key order, the asset blob.  Each is the file's
\* key (0: the manifest, 1: an archetype file, 2: the asset blob), the
\* archetype id, and the content or the error of producing it.
WriteSteps(p) ==
    LET ids == Keys(DOMAIN p.archetypes)
        one(id) == <<1, id, to_record_batch(p.archetypes[id])>>
    IN <<<<0, 0, Ok(p.metadata)>>>>
       \o [i \in DOMAIN ids |-> one(ids[i])]
       \o <<<<2, 0, Ok(p.assets)>>>>

Put(d, step, file) ==
    CASE step[1] = 0 -> Dir(file, d.parquet, d.assets)
      [] step[1] = 1 -> Dir(d.manifest, [d.parquet EXCEPT ![step[2]] = file], d.assets)
      [] step[1] = 2 -> Dir(d.manifest, d.parquet, file)

\* What a failed write into a created file gives: the manifest's is returned
\* with `?`, a data file's and the asset blob's meet an unwrap.
WriteError(step) == IF step[1] = 0 THEN Err("Json") ELSE Panic("unwrap")

\* PolarsWorld::write_to_dir where the file system lets the first k files be
\* written and fails the next, either its creation or, once it is created,
\* the write of its content: the directory left behind and the result.  A
\* file whose content cannot be produced or written has been created and
\* does not decode.
RECURSIVE WriteFrom(_, _, _, _)
WriteFrom(steps, d, k, fault) ==
    IF steps = <<>> THEN <<d, Ok(<<>>)>>
    ELSE IF k = 0 /\ fault = "create" THEN <<d, Err("Io")>>
    ELSE IF ~IsOk(Head(steps)[3]) THEN <<Put(d, Head(steps), Garbage), Head(steps)[3]>>
    ELSE IF k = 0 THEN <<Put(d, Head(steps), Garbage), WriteError(Head(steps))>>
    ELSE WriteFrom(Tail(steps), Put(d, Head(steps), Ok(Head(steps)[3].val)), k - 1, fault)

write_to_dir(p, d, k, fault) == WriteFrom(WriteSteps(p), d, k, fault)

\* The read loop over the data files found in the directory.
ArchetypeIdsToRead_scanning(metadata, d) ==
    {id \in DOMAIN d.parquet : Present(d.parquet[id])}

\* The read loop passing over the manifest's archetypes that have no file.
ArchetypeIdsToRead_skipping(metadata, d) ==
    {id \in DOMAIN metadata.archetypes : Present(d.parquet[id])}

\* The ids whose files read_from_dir opens: the keys of the manifest's
\* archetype map.
ArchetypeIdsToRead(metadata, d) == DOMAIN metadata.archetypes

\* One pass of the read loop: open and decode the archetype's file.
ReadArchetype(d, id) ==
    IF ~Present(d.parquet[id]) THEN Err("Io")
    ELSE IF ~IsOk(ParquetRead(d.parquet[id])) THEN ParquetRead(d.parquet[id])
    ELSE Ok(<<id, ParquetRead(d.parquet[id]).val>>)

\* PolarsWorld::read_from_dir
read_from_dir(d) ==
    LET metadata == JsonRead(d.manifest)
        ids == Keys(ArchetypeIdsToRead(metadata.val, d))
        archetypes == CollectResults([i \in DOMAIN ids |-> ReadArchetype(d, ids[i])])
        assets == PostcardRead(d.assets)
    IN IF ~Present(d.manifest) THEN Err("Io")
       ELSE IF ~IsOk(metadata) THEN metadata
       ELSE IF ~IsOk(archetypes) THEN archetypes
       ELSE IF ~Present(d.assets) THEN Err("Io")
       ELSE IF ~IsOk(assets) THEN assets
       ELSE Ok(PolarsWorld(Collect(archetypes.val), metadata.val, assets.val))

-----------------------------------------------------------------------------
(* Inputs of the column bridge. *)

\* The primitive kinds the inputs are drawn from.
Kinds == {"U8", "U16", "Bool"}

\* The shapes the inputs are drawn from: a scalar, a vector of two elements
\* and a matrix of three by two.
Shapes == {<<>>, <<2>>, <<3, 2>>}

ComponentTypes == {ComponentType(ty, sh) : ty \in Kinds, sh \in Shapes}

\* The bytes of a buffer of n bytes: distinct within a buffer, and distinct
\* between the buffers of different seeds.
Bytes(n, seed) == [i \in 1..n |-> (seed * 16 + i) % 256]

\* A column of the given row count whose buffer has the size its type asks for.
ColumnOf(c, ct, rows, asset) ==
    HostColumn(Bytes(rows * ElementSize(ct.primitive_ty) * Product(ct.shape), c),
               rows, c, ct, asset)

ComponentIds == 0..MaxComponentId

BridgeColumns ==
    {ColumnOf(c, ct, rows, asset) :
        c \in ComponentIds, ct \in ComponentTypes,
        rows \in 0..MaxRows, asset \in BOOLEAN}

Alphabet == {Digit0 + d : d \in 0..9} \cup {Plus, Minus, LetterA}

Names == UNION {[1..n -> Alphabet] : n \in 0..MaxNameLen}

\* Arrays of an external table: a flat u8 array and a fixed-size list over it.
ExternalArrays ==
    {PrimitiveArray("UInt8", <<<<7>>, <<9>>>>),
     FixedSizeListArray(2, PrimitiveArray("UInt8", <<<<7>>, <<9>>>>))}

\* Array descriptions of any make: a node has a null bitmap, no buffer, one,
\* or two, whose bytes tell its depth; it has no child, one child, or one
\* child next to a leaf on either side.
ArrayData(child_data, buffers) ==
    [data_type |-> "Struct", size |-> 0, len |-> 0,
     child_data |-> child_data, buffers |-> buffers, nulls |-> <<255>>]

BufferChoices(depth) ==
    {<<>>, <<<<10 * depth + 1>>>>, <<<<10 * depth + 2, 10 * depth + 3>>, <<10 * depth + 4>>>>}

SiblingLeaf == ArrayData(<<>>, <<<<99>>>>)

RECURSIVE ArrayDatas(_)
ArrayDatas(depth) ==
    IF depth = 0 THEN {ArrayData(<<>>, b) : b \in BufferChoices(0)}
    ELSE {ArrayData(cs, b) :
             cs \in {<<>>} \cup {<<c>> : c \in ArrayDatas(depth - 1)}
                          \cup {<<c, SiblingLeaf>> : c \in ArrayDatas(depth - 1)}
                          \cup {<<SiblingLeaf, c>> : c \in ArrayDatas(depth - 1)},
             b \in BufferChoices(depth)}

\* A byte the output vector holds before the extraction.
OutByte == 200

-----------------------------------------------------------------------------
(* The column bridge as a state machine: a column is converted to a Series *)
(* and back, or a Series of an external table is converted to a column.   *)

IdleB == /\ bpc = "idle" /\ bcol = Nothing /\ bser = Nothing /\ bback = Nothing
         /\ bdata = Nothing /\ bout = Nothing
IdleT == /\ tpc = "idle" /\ ttable = Nothing /\ tdf = Nothing
         /\ tmeta = Nothing /\ tres = Nothing
IdleA == apc = "idle" /\ apw = Nothing /\ aid = 0 /\ ares = Nothing
IdleC == /\ cpc = "idle" /\ cargs = <<>> /\ caliases = <<>> /\ cparams = <<>>
         /\ cmut_params = <<>> /\ cinner = Nothing
IdleW == /\ pc = "idle" /\ world = Nothing /\ polars = Nothing /\ dir = Nothing
         /\ wres = Nothing /\ tampered = FALSE
         /\ rres = Nothing /\ loaded = Nothing

InitBridge ==
    /\ \/ /\ bpc = "col"
          /\ bcol \in {Ok(c) : c \in BridgeColumns}
          /\ bser = Nothing
          /\ bdata = Nothing /\ bout = Nothing
       \/ /\ bpc = "ext"
          /\ bcol = Nothing
          /\ bser \in {Ok(Series(n, a)) : n \in Names, a \in ExternalArrays}
          /\ bdata = Nothing /\ bout = Nothing
       \/ /\ bpc = "data"
          /\ bcol = Nothing
          /\ bser = Nothing
          /\ bdata \in {Ok(ad) : ad \in ArrayDatas(MaxDepth)}
          /\ bout \in {Ok(<<>>), Ok(<<OutByte>>)}
    /\ bback = Nothing
    /\ IdleT /\ IdleA /\ IdleW /\ IdleC

\* column_to_array: HostColumn::to_series on the column.
BToSeries ==
    /\ bpc = "col"
    /\ bser' = to_series(bcol.val)
    /\ bpc' = "ser"
    /\ UNCHANGED <<bcol, bback, bdata, bout, tvars, avars, wvars, cvars>>

\* array_to_column on the Series just made, with the column's own type.
BFromSeries ==
    /\ bpc = "ser"
    /\ IsOk(bser)
    /\ bback' = from_series(bser.val, bcol.val.component_type, bcol.val.asset)
    /\ bpc' = "back"
    /\ UNCHANGED <<bcol, bser, bdata, bout, tvars, avars, wvars, cvars>>

\* array_to_column on a Series of an external table, under any ComponentType.
BFromExternal ==
    /\ bpc = "ext"
    /\ \E ct \in ComponentTypes, asset \in BOOLEAN :
          bback' = from_series(bser.val, ct, asset)
    /\ bpc' = "extback"
    /\ UNCHANGED <<bcol, bser, bdata, bout, tvars, avars, wvars, cvars>>

\* recurse_array_data on an array description and the bytes gathered so far.
BRecurse ==
    /\ bpc = "data"
    /\ bback' = Ok(recurse_array_data(bdata.val, bout.val))
    /\ bpc' = "bytes"
    /\ UNCHANGED <<bcol, bser, bdata, bout, tvars, avars, wvars, cvars>>

NextBridge == BToSeries \/ BFromSeries \/ BFromExternal \/ BRecurse

SpecBridge == InitBridge /\ [][NextBridge]_vars

-----------------------------------------------------------------------------
(* Worlds. *)

\* The n low bytes of e, little-endian.
RECURSIVE LittleEndian(_, _)
LittleEndian(e, n) ==
    IF n = 0 THEN <<>> ELSE <<e % 256>> \o LittleEndian(e \div 256, n - 1)

\* Column names of an external table: the reserved name, two ComponentIds,
\* and a name that is no number.
TableNames == {entity_id_string, to_string(5), to_string(7), <<LetterA>>}

\* A column of one row under the given name: the u64 entity id 0 under the
\* reserved name, a u8 value that tells the columns apart otherwise.
ExternalSeries(name) ==
    Series(name,
           IF name = entity_id_string
           THEN PrimitiveArray("UInt64", <<LittleEndian(0, 8)>>)
           ELSE PrimitiveArray("UInt8", <<<<name[1]>>>>))

ArchetypeIds == {1, 2}

\* The components an archetype may hold: each component lives in one archetype.
ComponentsOf(a) == IF a = 1 THEN {5, 7} ELSE {9}

\* The type each component is declared with.
TypeOf(c) ==
    CASE c = 5 -> ComponentType("U8", <<>>)
      [] c = 7 -> ComponentType("U16", <<2>>)
      [] c = 9 -> ComponentType("Bool", <<>>)
      [] c = 12 -> ComponentType("U8", <<2>>)
      [] c = ENTITY_ID_COMPONENT -> ComponentType_u64

\* Component 7 holds asset handles.
IsAsset(c) == c = 7

\* The entity in a row: ids are unique in the World, and rows need not be in
\* the order of the ids.
EntityAt(a, rows, r) == a * 10 + (rows - 1 - r)

TableOf(a, comps, rows) ==
    Table([c \in comps |->
              Column(ColumnOf(c, TypeOf(c), rows, IsAsset(c)),
                     ComponentMetadata(c, TypeOf(c)))],
          HostColumn(Concat([r \in 1..rows |-> LittleEndian(EntityAt(a, rows, r - 1), 8)]),
                     rows, ENTITY_ID_COMPONENT, ComponentType_u64, FALSE),
          [e \in {EntityAt(a, rows, r) : r \in 0..(rows - 1)} |-> a * 10 + rows - 1 - e])

\* What a World holds of one archetype: nothing, or a set of its components
\* over some rows.
ArchetypeChoices(a) ==
    [present : BOOLEAN, comps : SUBSET ComponentsOf(a), rows : 0..MaxRows]

RECURSIVE Sum(_)
Sum(s) == IF s = <<>> THEN 0 ELSE Head(s) + Sum(Tail(s))

WorldOf(choice, assets, tick) ==
    LET ids == {a \in ArchetypeIds : choice[a].present}
    IN World([a \in ids |-> TableOf(a, choice[a].comps, choice[a].rows)],
             [c \in UNION {choice[a].comps : a \in ids} |->
                 CHOOSE a \in ids : c \in choice[a].comps],
             assets, tick,
             Sum([i \in 1..Cardinality(ids) |-> choice[Keys(ids)[i]].rows]))

Worlds ==
    {WorldOf(choice, <<1>>, 7) :
        choice \in {f \in [ArchetypeIds -> UNION {ArchetypeChoices(a) : a \in ArchetypeIds}] :
                        \A a \in ArchetypeIds : f[a] \in ArchetypeChoices(a)}}

\* The World of an earlier snapshot that the directory may still hold.
OldWorld ==
    WorldOf([a \in ArchetypeIds |->
                [present |-> TRUE, comps |-> ComponentsOf(a) \ {7, 9}, rows |-> 1]],
            <<>>, 2)

EmptyDir == Dir(Nothing, [a \in ArchetypeIds |-> Nothing], Nothing)

OldDir == write_to_dir(to_polars(OldWorld).val, EmptyDir, 4, "create")[1]

\* A data file that decodes to a table without the entity-id column.
ForeignFile == Ok(to_record_batch(<<ExternalSeries(to_string(5))>>).val)

-----------------------------------------------------------------------------
(* The snapshot of a World as a state machine: the World is converted,     *)
(* rebuilt in memory or written to a directory, the directory is changed   *)
(* from outside, read back, and the World rebuilt from what was read.      *)

Init ==
    /\ pc = "start"
    /\ world \in {Ok(w) : w \in Worlds}
    /\ polars = Nothing
    /\ dir \in {EmptyDir, OldDir}
    /\ wres = Nothing
    /\ tampered = FALSE
    /\ rres = Nothing
    /\ loaded = Nothing
    /\ IdleB /\ IdleT /\ IdleA /\ IdleC

ToPolars ==
    /\ pc = "start"
    /\ polars' = to_polars(world.val)
    /\ pc' = IF IsOk(polars') THEN "converted" ELSE "aborted"
    /\ UNCHANGED <<world, dir, wres, tampered, rres, loaded, bvars, tvars, avars, cvars>>

RebuildInMemory ==
    /\ pc = "converted"
    /\ loaded' = try_from(polars.val)
    /\ pc' = "rebuilt"
    /\ UNCHANGED <<world, polars, dir, wres, tampered, rres, bvars, tvars, avars, cvars>>

\* write_to_dir, the file system failing it after k files or not at all.
WriteToDir ==
    /\ pc = "converted"
    /\ \E k \in 0..(Cardinality(DOMAIN polars.val.archetypes) + 2),
          fault \in {"create", "write"} :
          /\ dir' = write_to_dir(polars.val, dir, k, fault)[1]
          /\ wres' = write_to_dir(polars.val, dir, k, fault)[2]
    /\ pc' = "written"
    /\ UNCHANGED <<world, polars, tampered, rres, loaded, bvars, tvars, avars, cvars>>

\* Between the write and the read a file is deleted, damaged, or (a data file)
\* replaced by another table's.
Tamper ==
    /\ pc = "written"
    /\ ~tampered
    /\ \/ \E file \in {Nothing, Garbage} :
              /\ Present(dir.manifest)
              /\ dir' = Dir(file, dir.parquet, dir.assets)
       \/ \E id \in ArchetypeIds, file \in {Nothing, Garbage, ForeignFile} :
              /\ Present(dir.parquet[id])
              /\ dir' = Dir(dir.manifest, [dir.parquet EXCEPT ![id] = file], dir.assets)
       \/ \E file \in {Nothing, Garbage} :
              /\ Present(dir.assets)
              /\ dir' = Dir(dir.manifest, dir.parquet, file)
    /\ tampered' = TRUE
    /\ UNCHANGED <<pc, world, polars, wres, rres, loaded, bvars, tvars, avars, cvars>>

ReadFromDir ==
    /\ pc = "written"
    /\ rres' = read_from_dir(dir)
    /\ pc' = "read"
    /\ UNCHANGED <<world, polars, dir, wres, tampered, loaded, bvars, tvars, avars, cvars>>

\* World::try_from on the PolarsWorld read.
Rebuild ==
    /\ pc = "read"
    /\ IsOk(rres)
    /\ loaded' = try_from(rres.val)
    /\ pc' = "loaded"
    /\ UNCHANGED <<world, polars, dir, wres, tampered, rres, bvars, tvars, avars, cvars>>

Next == ToPolars \/ RebuildInMemory \/ WriteToDir \/ Tamper \/ ReadFromDir \/ Rebuild

Spec == Init /\ [][Next]_vars

-----------------------------------------------------------------------------
(* The rebuild of a World from a PolarsWorld of any make: its table map and *)
(* the archetype map of its manifest are two maps, each with its own keys. *)

GivenIds == {1, 2, 3}

\* The components of the archetypes of those snapshots.
GivenComponents(a) ==
    CASE a = 1 -> {5}
      [] a = 2 -> {7}
      [] a = 3 -> {5, 12}

\* The table map or the manifest's archetype map of a snapshot: for each of
\* the ids it holds, the part (1: the manifest entry, 2: the external table)
\* of the conversion of a table of that archetype over some rows.
GivenMaps(part) ==
    UNION {{[a \in ids |-> table_to_polars(TableOf(a, GivenComponents(a), rows[a])).val[part]] :
               rows \in [ids -> 0..MaxRows]} : ids \in SUBSET GivenIds}

GivenSnapshots ==
    {PolarsWorld(archetypes, Metadata(archetype_metadata, EmptyMap, 7, 0), <<1>>) :
        archetypes \in GivenMaps(2), archetype_metadata \in GivenMaps(1)}

InitRebuild ==
    /\ pc = "given"
    /\ world = Nothing
    /\ polars \in {Ok(p) : p \in GivenSnapshots}
    /\ dir = Nothing
    /\ wres = Nothing
    /\ tampered = FALSE
    /\ rres = Nothing
    /\ loaded = Nothing
    /\ IdleB /\ IdleT /\ IdleA /\ IdleC

\* World::try_from on the snapshot.
RebuildGiven ==
    /\ pc = "given"
    /\ loaded' = try_from(polars.val)
    /\ pc' = "regiven"
    /\ UNCHANGED <<world, polars, dir, wres, tampered, rres, bvars, tvars, avars, cvars>>

NextRebuild == RebuildGiven

SpecRebuild == InitRebuild /\ [][NextRebuild]_vars

-----------------------------------------------------------------------------
(* The read-only ColumnStore over a PolarsWorld. *)

PolarsColumnRef(entity_series, buf) == [entity_series |-> entity_series, buf |-> buf]

\* ColumnStore::column for &PolarsWorld
column(p, id) ==
    LET archetype == p.metadata.component_map[id]
        table == p.archetypes[archetype]
        entity_series == DataFrameColumn(table, entity_id_string)
        buf == DataFrameColumn(table, to_string(id))
    IN IF id \notin DOMAIN p.metadata.component_map THEN Err("ComponentNotFound")
       ELSE IF archetype \notin DOMAIN p.archetypes THEN Err("ComponentNotFound")
       ELSE IF ~IsOk(entity_series) THEN entity_series
       ELSE IF ~IsOk(buf) THEN buf
       ELSE Ok(PolarsColumnRef(entity_series.val, buf.val))

\* ColumnRef for PolarsColumnRef
len(ref) == ArrayLen(ref.entity_series.array)
entity_buf(ref) == to_bytes(ref.entity_series)
value_buf(ref) == to_bytes(ref.buf)
is_asset(ref) == FALSE

\* The tables a loaded snapshot may hold for an archetype: the table of
\* components 5 and 7 over one row, the same without its entity-id column,
\* and the same without the column of component 7.
AdapterTables ==
    LET full == table_to_polars(TableOf(1, {5, 7}, 1)).val[2]
    IN {full,
        SelectSeq(full, LAMBDA series : series.name # entity_id_string),
        SelectSeq(full, LAMBDA series : series.name # to_string(7))}

\* The manifest entry of those tables: component 7 is asset-resident.
AdapterArchetypeMetadata == table_to_polars(TableOf(1, {5, 7}, 1)).val[1]

\* Snapshots whose component map, archetype map and tables need not agree.
AdapterWorlds ==
    {PolarsWorld(archetypes,
                 Metadata([a \in DOMAIN archetypes |-> AdapterArchetypeMetadata],
                          component_map, 7, 1),
                 <<1>>) :
        archetypes \in UNION {[ids -> AdapterTables] : ids \in SUBSET ArchetypeIds},
        component_map \in UNION {[cs -> ArchetypeIds] : cs \in SUBSET {5, 7}}}

InitAdapter ==
    /\ apc = "in"
    /\ apw \in {Ok(p) : p \in AdapterWorlds}
    /\ aid = 0
    /\ ares = Nothing
    /\ IdleB /\ IdleT /\ IdleW /\ IdleC

\* A column lookup through the adapter.
AColumn ==
    /\ apc = "in"
    /\ \E id \in {5, 7, 9} :
          /\ aid' = id
          /\ ares' = column(apw.val, id)
    /\ apc' = "done"
    /\ UNCHANGED <<apw, bvars, tvars, wvars, cvars>>

NextAdapter == AColumn

SpecAdapter == InitAdapter /\ [][NextAdapter]_vars

-----------------------------------------------------------------------------
(* CompFn (libs/nox/src/comp_fn.rs): a function of N arguments, each a      *)
(* &Builder, a Tensor or a &mut Tensor, run against a Builder.             *)

ArgKinds == {"builder", "tensor", "mut"}

ArgLists == UNION {[1..n -> ArgKinds] : n \in 0..MaxArgs}

\* FromBuilder::is_mut_borrowed
is_mut_borrowed(kind) == kind = "mut"

\* Builder::new()
Builder(params, mut_params, aliases) ==
    [params |-> params, mut_params |-> mut_params, aliases |-> aliases]

Builder_new == Builder(<<>>, <<>>, <<>>)

\* Noxpr::parameter(i, ..) made for the argument at position arg.
Parameter(i, arg) == [kind |-> "parameter", number |-> i, arg |-> arg]

\* The op of the value the function returns.
ResultOp == [kind |-> "result", number |-> 0, arg |-> 0]

\* The first loop of compute from the argument at position i on: for each
\* mutably borrowed argument alias_index is decremented and handed to
\* setup_alias with the length params has at that moment.
RECURSIVE SetupAliases(_, _, _, _)
SetupAliases(args, i, builder, alias_index) ==
    IF i > Len(args) THEN builder
    ELSE IF is_mut_borrowed(args[i])
    THEN SetupAliases(args, i + 1,
             Builder(builder.params, builder.mut_params,
                     Append(builder.aliases,
                            [arg |-> i, param_index |-> Len(builder.params),
                             alias_index |-> alias_index - 1])),
             alias_index - 1)
    ELSE SetupAliases(args, i + 1, builder, alias_index)

\* FromBuilder::from_builder of the argument at position arg: a &Builder
\* registers nothing, a Tensor registers the next parameter, a &mut Tensor
\* registers the next parameter and pushes its tensor to mut_params.
from_builder(kind, arg, builder) ==
    CASE kind = "builder" -> builder
      [] kind = "tensor" ->
            Builder(Append(builder.params, Parameter(Len(builder.params), arg)),
                    builder.mut_params, builder.aliases)
      [] kind = "mut" ->
            Builder(Append(builder.params, Parameter(Len(builder.params), arg)),
                    Append(builder.mut_params, Parameter(Len(builder.params), arg)),
                    builder.aliases)

\* The second loop of compute: from_builder of each argument in order.
RECURSIVE FromBuilders(_, _, _)
FromBuilders(args, i, builder) ==
    IF i > Len(args) THEN builder
    ELSE FromBuilders(args, i + 1, from_builder(args[i], i, builder))

\* CompFn::compute: alias_index starts at one per argument plus one.
compute(args, builder) ==
    FromBuilders(args, 1, SetupAliases(args, 1, builder, Len(args) + 1))

\* Vec::insert(1, o)
InsertAtOne(tuple, o) == <<Head(tuple), o>> \o Tail(tuple)

\* The loop of build_expr over mut_params, each inserted at index 1.
RECURSIVE TupleOf(_, _)
TupleOf(mut_params, tuple) ==
    IF mut_params = <<>> THEN tuple
    ELSE TupleOf(Tail(mut_params), InsertAtOne(tuple, Head(mut_params)))

\* The inner expression of build_expr: the tuple of the result and the
\* mutable parameters, or the result alone when there is none.
Inner(builder) ==
    IF builder.mut_params # <<>>
    THEN [tuple |-> TRUE, items |-> TupleOf(builder.mut_params, <<ResultOp>>)]
    ELSE [tuple |-> FALSE, items |-> <<ResultOp>>]

InitCompFn ==
    /\ cpc = "new"
    /\ cargs \in ArgLists
    /\ caliases = Builder_new.aliases
    /\ cparams = Builder_new.params
    /\ cmut_params = Builder_new.mut_params
    /\ cinner = Nothing
    /\ IdleB /\ IdleT /\ IdleA /\ IdleW

\* build_expr: self.compute(&mut builder) on the new Builder.
CCompute ==
    /\ cpc = "new"
    /\ caliases' = compute(cargs, Builder(cparams, cmut_params, caliases)).aliases
    /\ cparams' = compute(cargs, Builder(cparams, cmut_params, caliases)).params
    /\ cmut_params' = compute(cargs, Builder(cparams, cmut_params, caliases)).mut_params
    /\ cpc' = "computed"
    /\ UNCHANGED <<cargs, cinner, bvars, tvars, avars, wvars>>

\* build_expr: the inner expression made of the result and builder.mut_params.
CBuildExpr ==
    /\ cpc = "computed"
    /\ cinner' = Ok(Inner(Builder(cparams, cmut_params, caliases)))
    /\ cpc' = "built"
    /\ UNCHANGED <<cargs, caliases, cparams, cmut_params, bvars, tvars, avars, wvars>>

NextCompFn == CCompute \/ CBuildExpr

SpecCompFn == InitCompFn /\ [][NextCompFn]_vars

-----------------------------------------------------------------------------
(* Properties of the snapshot. *)

\* C1: every World converts with to_polars, and the World rebuilt from the
\* conversion with try_from has the same archetype ids and, per archetype,
\* the same column buffers, entity-id buffer and entity map.
C1_InMemoryRoundTrip ==
    /\ pc # "aborted"
    /\ pc = "rebuilt"
          => /\ IsOk(loaded)
             /\ ArchetypesEq(loaded.val.archetypes, world.val.archetypes)

\* The directory was written in full and nobody has touched it since.
WrittenIntact == IsOk(wres) /\ ~tampered

\* C2: every World's snapshot, once written in full, reads back and rebuilds:
\* the external tables read equal the ones written, and the rebuilt World has
\* the archetypes, entity maps, tick and entity count of the original.
C2_DurableRoundTrip ==
    /\ pc # "aborted"
    /\ (pc \in {"read", "loaded"} /\ WrittenIntact)
          => /\ IsOk(rres)
             /\ rres.val.archetypes = polars.val.archetypes
    /\ (pc = "loaded" /\ WrittenIntact)
          => /\ IsOk(loaded)
             /\ ArchetypesEq(loaded.val.archetypes, world.val.archetypes)
             /\ loaded.val.tick = world.val.tick
             /\ loaded.val.entity_len = world.val.entity_len

\* The manifest of the directory decodes.
ManifestReadable(d) == Present(d.manifest) /\ d.manifest.tag # "Garbage"

Listed(d) == DOMAIN d.manifest.val.archetypes

\* The manifest lists an archetype whose data file is not in the directory.
ListedFileMissing(d) ==
    /\ ManifestReadable(d)
    /\ \E id \in Listed(d) : ~Present(d.parquet[id])

\* A listed data file that does not decode comes, in id order, before every
\* listed data file that is missing.
UndecodableBeforeMissing(d) ==
    \E id \in Listed(d) :
        /\ d.parquet[id].tag = "Garbage"
        /\ \A other \in Listed(d) : ~Present(d.parquet[other]) => id < other

C4_ManifestAuthoritative ==
    (pc \in {"read", "loaded"} /\ IsOk(rres))
        => /\ DOMAIN rres.val.archetypes = Listed(dir)
           /\ DOMAIN rres.val.metadata.archetypes = Listed(dir)

\* A directory holding a data file the manifest does not list was read.
C4_Witness ==
    /\ pc = "read"
    /\ IsOk(rres)
    /\ \E id \in ArchetypeIds \ Listed(dir) : Present(dir.parquet[id])
    /\ Listed(dir) # {}

Unreadable(file) == ~Present(file) \/ file.tag = "Garbage"

\* A step of read_from_dir fails on this directory.
ReadStepFails(d) ==
    \/ Unreadable(d.manifest)
    \/ \E id \in Listed(d) : Unreadable(d.parquet[id])
    \/ Unreadable(d.assets)

\* The conversion of some table of the snapshot fails.
ConversionFails(p) ==
    \E id \in DOMAIN p.archetypes :
        ~IsOk(from_dataframe(p.archetypes[id], p.metadata.archetypes[id]))

\* C5: reading a snapshot is all-or-nothing.  When a step of the read fails
\* the caller gets an error and no snapshot or World; when a table conversion
\* fails the caller gets an error and no World; and a World that is returned
\* holds every archetype of the manifest.
C5_AllOrNothing ==
    /\ (pc \in {"read", "loaded"} /\ ReadStepFails(dir))
          => IsErr(rres) /\ loaded.tag = "None"
    /\ (pc = "loaded" /\ ConversionFails(rres.val)) => IsErr(loaded)
    /\ (pc = "loaded" /\ IsOk(loaded))
          => DOMAIN loaded.val.archetypes = Listed(dir)

\* A snapshot of two archetypes was read, one table converts and the other
\* does not, and the caller got an error.
C5_Witness ==
    /\ pc = "loaded"
    /\ Cardinality(DOMAIN rres.val.archetypes) = 2
    /\ \E id \in DOMAIN rres.val.archetypes :
          IsOk(from_dataframe(rres.val.archetypes[id], rres.val.metadata.archetypes[id]))
    /\ ConversionFails(rres.val)
    /\ IsErr(loaded)

-----------------------------------------------------------------------------
(* Properties of the adapter. *)

HasColumn(df, name) == \E i \in DOMAIN df : df[i].name = name

\* A step of the lookup chain of the id is missing.
LookupStepMissing(p, id) ==
    \/ id \notin DOMAIN p.metadata.component_map
    \/ p.metadata.component_map[id] \notin DOMAIN p.archetypes
    \/ ~HasColumn(p.archetypes[p.metadata.component_map[id]], entity_id_string)
    \/ ~HasColumn(p.archetypes[p.metadata.component_map[id]], to_string(id))

\* C8: a lookup with any step of its chain missing fails with
\* ComponentNotFound.
C8_ComponentNotFound ==
    (apc = "done" /\ LookupStepMissing(apw.val, aid))
        => IsErr(ares) /\ ares.err = "ComponentNotFound"

\* The manifest describes the component as asset-resident.
AssetDescribed(p, id) ==
    \E a \in DOMAIN p.metadata.archetypes :
        \E i \in DOMAIN p.metadata.archetypes[a].columns :
            /\ p.metadata.archetypes[a].columns[i].metadata.component_id = id
            /\ p.metadata.archetypes[a].columns[i].asset

\* C9: the lookup of a component the manifest describes as asset-resident
\* hands back no column, and every column handed back reports is_asset false.
C9_AssetColumnsNotRetrievable ==
    /\ (apc = "done" /\ AssetDescribed(apw.val, aid)) => ~IsOk(ares)
    /\ (apc = "done" /\ IsOk(ares)) => is_asset(ares.val) = FALSE

-----------------------------------------------------------------------------
(* Properties of the column bridge. *)

\* The value a sequence of decimal digits denotes.
RECURSIVE DecimalValue(_)
DecimalValue(s) ==
    IF s = <<>> THEN 0
    ELSE DecimalValue(SubSeq(s, 1, Len(s) - 1)) * 10 + (s[Len(s)] - Digit0)

AllDigits(s) == s # <<>> /\ \A i \in DOMAIN s : IsDigit(s[i])

\* s is the decimal string of c: digits only, no leading zero, of value c.
IsDecimalOf(s, c) ==
    /\ AllDigits(s)
    /\ Len(s) > 1 => s[1] # Digit0
    /\ DecimalValue(s) = c

\* A numeric name: decimal digits, with an optional leading plus sign.
Unsigned(s) == IF s # <<>> /\ Head(s) = Plus THEN Tail(s) ELSE s
IsNumeric(s) == AllDigits(Unsigned(s))

\* C6: the Series made from a column is named by the decimal string of the
\* column's ComponentId, converting it back yields a column of exactly that
\* ComponentId, and a Series whose name is not numeric or denotes a value
\* above the largest ComponentId is refused with InvalidComponentId.
C6_ComponentIdRoundTrip ==
    /\ (bpc \in {"ser", "back"} /\ IsOk(bser))
          => IsDecimalOf(bser.val.name, bcol.val.component_id)
    /\ bpc = "back"
          => IsOk(bback) /\ bback.val.component_id = bcol.val.component_id
    /\ (bpc = "extback" /\ (~IsNumeric(bser.val.name)
                            \/ DecimalValue(Unsigned(bser.val.name)) > MaxComponentId))
          => IsErr(bback) /\ bback.err = "InvalidComponentId"

\* A column of the largest ComponentId, of two digits, has gone to a Series and back.
C6_Witness ==
    /\ bpc = "back"
    /\ bcol.val.component_id = MaxComponentId
    /\ IsOk(bback)

\* C10: converting a column of primitive kind bool hands the error Unsupported
\* back to the caller, in both directions: no panic, no array, no buffer.
C10_BoolUnsupported ==
    /\ (bpc = "ser" /\ bcol.val.component_type.primitive_ty = "Bool")
          => IsErr(bser) /\ bser.err = "Unsupported"
    /\ bpc = "extback"
          => ~(IsOk(bback) /\ bback.val.component_type.primitive_ty = "Bool")

-----------------------------------------------------------------------------
(* Table::from_dataframe on an external table and a metadata of any make. *)

ExternalTables ==
    {df \in UNION {[1..n -> {ExternalSeries(name) : name \in TableNames}] : n \in 0..MaxCols} :
        UniqueNames(df)}

\* The components the Tables are drawn from: 12 sorts after 7 as a number and
\* before 5 as a string, and one component has the id of the entity-id column.
TableComponents == {5, 7, 12, ENTITY_ID_COMPONENT}

Tables == {TableOf(1, comps, rows) : comps \in SUBSET TableComponents, rows \in 0..MaxRows}

Descriptors ==
    {ColumnMetadata(ComponentMetadata(5, ComponentType("U8", <<>>)), FALSE),
     ColumnMetadata(ComponentMetadata(7, ComponentType("U8", <<>>)), TRUE)}

ExternalMetadata ==
    {ArchetypeMetadata(columns, entity_map) :
        columns \in UNION {[1..n -> Descriptors] : n \in 0..MaxCols},
        entity_map \in {EmptyMap, [e \in {0} |-> 0]}}

InitTable ==
    /\ \/ /\ tpc = "in"
          /\ ttable = Nothing
          /\ tdf \in {Ok(df) : df \in ExternalTables}
          /\ tmeta \in {Ok(md) : md \in ExternalMetadata}
       \/ /\ tpc = "table"
          /\ ttable \in {Ok(t) : t \in Tables}
          /\ tdf = Nothing
          /\ tmeta = Nothing
    /\ tres = Nothing
    /\ IdleB /\ IdleA /\ IdleW /\ IdleC

\* table_from_external
TFromDataframe ==
    /\ tpc = "in"
    /\ tres' = from_dataframe(tdf.val, tmeta.val)
    /\ tpc' = "done"
    /\ UNCHANGED <<ttable, tdf, tmeta, bvars, avars, wvars, cvars>>

\* table_to_external
TToPolars ==
    /\ tpc = "table"
    /\ tres' = table_to_polars(ttable.val)
    /\ tpc' = "polars"
    /\ UNCHANGED <<ttable, tdf, tmeta, bvars, avars, wvars, cvars>>

NextTable == TFromDataframe \/ TToPolars

SpecTable == InitTable /\ [][NextTable]_vars

HasEntityColumn(df) == \E i \in DOMAIN df : df[i].name = entity_id_string

\* The name is a number that fits a ComponentId.
Parsable(name) ==
    IsNumeric(name) /\ DecimalValue(Unsigned(name)) <= MaxComponentId

\* Some column that is paired with a descriptor has a name that is no ComponentId.
PairedUnparsable(df, md) ==
    \E i \in DOMAIN df : i <= Len(md.columns) /\ ~Parsable(df[i].name)

-----------------------------------------------------------------------------
(* Properties of the table conversion. *)

\* The positions of the columns of the table that carry the reserved name.
ReservedColumns(df) == {i \in DOMAIN df : df[i].name = entity_id_string}

\* C11: every Table, whatever ComponentIds its columns have, converts to an
\* external table in which exactly one column carries the reserved entity-id
\* name and no value column (every column but the last) is named by it.
C11_ReservedNameUnique ==
    tpc = "polars"
        => /\ IsOk(tres)
           /\ Cardinality(ReservedColumns(tres.val[2])) = 1
           /\ \A i \in 1..(Len(tres.val[2]) - 1) : tres.val[2][i].name # entity_id_string

-----------------------------------------------------------------------------
(* Properties of the column buffers. *)

\* The size the buffer of a column has by its row count and ComponentType.
SizedBuffer(hc) ==
    Len(hc.buf) = hc.len * ElementSize(hc.component_type.primitive_ty)
                         * Product(hc.component_type.shape)

\* C12: every column built by array_to_column has a buffer of row_count x
\* element_size(primitive_kind) x product(shape) bytes, for the ComponentType
\* it was given.
C12_BufferSizing ==
    (bpc \in {"back", "extback"} /\ IsOk(bback)) => SizedBuffer(bback.val)

-----------------------------------------------------------------------------
(* Properties of the tables built from external tables. *)

\* The unsigned integer a little-endian byte sequence denotes.
RECURSIVE FromLittleEndian(_)
FromLittleEndian(bytes) ==
    IF bytes = <<>> THEN 0 ELSE Head(bytes) + 256 * FromLittleEndian(Tail(bytes))

\* The entity ids an entity-id buffer holds, one u64 per row.
EntityIds(hc) == {FromLittleEndian(SubSeq(hc.buf, (r - 1) * 8 + 1, r * 8)) : r \in 1..hc.len}

\* The entity map takes the entities of the buffer one-to-one onto the rows.
Bijection(table) ==
    /\ DOMAIN table.entity_map = EntityIds(table.entity_buffer)
    /\ {table.entity_map[e] : e \in DOMAIN table.entity_map} = 0..(table.entity_buffer.len - 1)
    /\ \A e, f \in DOMAIN table.entity_map :
          table.entity_map[e] = table.entity_map[f] => e = f

\* C13: every Table built by table_from_external has an entity map whose keys
\* are the entity ids of its entity-id buffer and whose values are exactly
\* the rows 0..row_count-1, none twice.
C13_EntityMapBijection ==
    (tpc = "done" /\ IsOk(tres)) => Bijection(tres.val)

-----------------------------------------------------------------------------
(* Properties of the arrays made of columns. *)

\* The i-th value of the column's buffer: the bytes of one element.
BufferValue(hc, i) ==
    SubSeq(hc.buf, (i - 1) * ElementSize(hc.component_type.primitive_ty) + 1,
           i * ElementSize(hc.component_type.primitive_ty))

\* A flat primitive array: one element per row, in buffer order.
FlatPerRow(hc, array) ==
    /\ array.tag = "Primitive"
    /\ Len(array.values) = hc.len
    /\ \A r \in 1..hc.len : array.values[r] = BufferValue(hc, r)

\* A fixed-size-list array of the given width: one list value per row, the
\* elements of the r-th list being the r-th run of values of the buffer.
ListPerRow(hc, array, width) ==
    /\ array.tag = "FixedSizeList"
    /\ array.size = width
    /\ ArrayLen(array) = hc.len
    /\ Len(array.child[1].values) = hc.len * width
    /\ \A r \in 1..hc.len : \A k \in 1..width :
          array.child[1].values[(r - 1) * width + k] = BufferValue(hc, (r - 1) * width + k)

\* C14: the array made of a column of non-empty shape is a fixed-size list of
\* width product(shape) with one list value per row holding that row's values
\* in buffer order, the array made of a column of empty shape is a flat
\* primitive array with one element per row, and both convert back to the
\* bytes of the column's buffer.
C14_ShapeFidelity ==
    /\ (bpc \in {"ser", "back"} /\ IsOk(bser))
          => IF bcol.val.component_type.shape = <<>>
             THEN FlatPerRow(bcol.val, bser.val.array)
             ELSE ListPerRow(bcol.val, bser.val.array,
                             Product(bcol.val.component_type.shape))
    /\ bpc = "back" => IsOk(bback) /\ bback.val.buf = bcol.val.buf

\* A column of two rows of three-by-two tensors of u16 went to an array and back.
C14_Witness ==
    /\ bpc = "back"
    /\ bcol.val.component_type = ComponentType("U16", <<3, 2>>)
    /\ bcol.val.len = 2
    /\ Len(bcol.val.buf) = 24
    /\ IsOk(bback)
    /\ bback.val.len = 2

-----------------------------------------------------------------------------
(* Properties of the rebuild. *)

\* C15: the table the rebuilt World stores under an archetype id is the one
\* table_from_external makes of the external table of that id and of the
\* ArchetypeMetadata the manifest stores under that same id, whatever the
\* keys of the two maps.
C15_MatchingMetadata ==
    (pc = "regiven" /\ IsOk(loaded))
        => \A id \in DOMAIN loaded.val.archetypes :
              /\ id \in DOMAIN polars.val.archetypes
              /\ id \in DOMAIN polars.val.metadata.archetypes
              /\ Ok(loaded.val.archetypes[id])
                    = from_dataframe(polars.val.archetypes[id],
                                     polars.val.metadata.archetypes[id])

-----------------------------------------------------------------------------
(* Properties of the column keys. *)

\* C16: in every Table built by table_from_external each Column is stored
\* under the ComponentId parsed from the name of the array its bytes came
\* from: the key, the id of the column's buffer (the parsed name) and the id
\* in the column's metadata are one, in whatever order the external table
\* stores its columns.
C16_KeyedByParsedName ==
    (tpc = "done" /\ IsOk(tres))
        => \A c \in DOMAIN tres.val.columns :
              /\ tres.val.columns[c].buffer.component_id = c
              /\ tres.val.columns[c].metadata.component_id = c

-----------------------------------------------------------------------------
(* Properties of the write. *)

\* The content write_to_dir gives the data file of an archetype.
NewFile(p, id) == Ok(to_record_batch(p.archetypes[id]).val)

\* What a call of write_to_dir for the snapshot p has made of the directory:
\* data files of archetypes p does not hold are left as they were; a call
\* that returns Ok has written every file; a call that stops with the new
\* manifest written has written the data files of a run of the first ids in
\* full, left at most one file created and torn, left every later data file
\* and the asset blob as they were (stale or missing), and hands back an
\* error or panic that names no archetype; a call that stops before the
\* manifest is written has touched no other file.
WriteOutcome(before, after, p, res) ==
    LET ids == DOMAIN p.archetypes
        Written(id) == after.parquet[id] = NewFile(p, id)
        Untouched(id) == after.parquet[id] = before.parquet[id]
        Torn(id) == after.parquet[id] = Garbage
    IN /\ DOMAIN after = {"manifest", "parquet", "assets"}
       /\ \A id \in ArchetypeIds \ ids : Untouched(id)
       /\ IsOk(res)
             => /\ after.manifest = Ok(p.metadata)
                /\ \A id \in ids : Written(id)
                /\ after.assets = Ok(p.assets)
       /\ (~IsOk(res) /\ after.manifest = Ok(p.metadata))
             => /\ \A id \in ids : Written(id) \/ Untouched(id) \/ Torn(id)
                /\ \A i, j \in ids : (i < j /\ ~Untouched(j)) => Written(i)
                /\ after.assets \in {before.assets, Garbage}
                /\ after.assets # before.assets => \A id \in ids : Written(id)
                /\ res.val = <<>>
       /\ (~IsOk(res) /\ after.manifest # Ok(p.metadata))
             => /\ after.parquet = before.parquet
                /\ after.assets = before.assets

\* C17: write_to_dir writes the manifest first, then the data files one after
\* another in id order, then the asset blob, and is not atomic: when it stops
\* after the manifest and before the last file, the directory holds the new
\* manifest next to data files that are stale or missing, with nothing that
\* marks it incomplete and no report of the archetypes not written.
C17_NonAtomicWrite ==
    [][(pc = "converted" /\ pc' = "written")
          => WriteOutcome(dir, dir', polars.val, wres')]_vars

\* A write of two archetypes stopped after the first data file, leaving the
\* new manifest next to the second archetype's file of the earlier snapshot.
C17_Witness ==
    /\ pc = "written"
    /\ ~tampered
    /\ ~IsOk(wres)
    /\ DOMAIN polars.val.archetypes = {1, 2}
    /\ dir.manifest = Ok(polars.val.metadata)
    /\ dir.parquet[1] = NewFile(polars.val, 1)
    /\ dir.parquet[2] = OldDir.parquet[2]
    /\ dir.parquet[2] # NewFile(polars.val, 2)
    /\ dir.assets = OldDir.assets

-----------------------------------------------------------------------------
(* Properties of the external table made of a Table. *)

\* The i-th value column is that of the i-th key of the Table's column map,
\* and the i-th descriptor describes it.
ValueColumnInOrder(table, metadata, df, i) ==
    LET c == Keys(DOMAIN table.columns)[i]
    IN /\ df[i].name = to_string(c)
       /\ to_bytes(df[i]) = table.columns[c].buffer.buf
       /\ metadata.columns[i].metadata.component_id = c
       /\ metadata.columns[i].metadata.component_type
             = table.columns[c].buffer.component_type
       /\ metadata.columns[i].asset = table.columns[c].buffer.asset

\* The last column is the flat u64 array of the entity-id buffer.
EntityColumnLast(table, df) ==
    /\ df[Len(df)].name = entity_id_string
    /\ df[Len(df)].array.tag = "Primitive"
    /\ df[Len(df)].array.data_type = "UInt64"
    /\ to_bytes(df[Len(df)]) = table.entity_buffer.buf

\* C18: table_to_external emits the value columns in the iteration order of
\* the Table's column map, one descriptor per value column and the i-th
\* descriptor for the i-th column, and the entity-id array (u64, scalar)
\* after all value columns.
C18_ColumnOrder ==
    (tpc = "polars" /\ IsOk(tres))
        => /\ Len(tres.val[1].columns) = Cardinality(DOMAIN ttable.val.columns)
           /\ Len(tres.val[2]) = Cardinality(DOMAIN ttable.val.columns) + 1
           /\ \A i \in 1..Cardinality(DOMAIN ttable.val.columns) :
                 ValueColumnInOrder(ttable.val, tres.val[1], tres.val[2], i)
           /\ EntityColumnLast(ttable.val, tres.val[2])

\* A Table of the components 5, 7 and 12 over two rows was converted.
C18_Witness ==
    /\ tpc = "polars"
    /\ IsOk(tres)
    /\ DOMAIN ttable.val.columns = {5, 7, 12}
    /\ ttable.val.entity_buffer.len = 2
    /\ Len(tres.val[2]) = 4

-----------------------------------------------------------------------------
(* Properties of the byte extraction. *)

\* The buffers of an array description, each node's after those of its
\* children, the children in child order.
RECURSIVE BuffersDepthFirst(_)
BuffersDepthFirst(ad) ==
    LET below == [i \in DOMAIN ad.child_data |-> BuffersDepthFirst(ad.child_data[i])]
    IN Concat(below) \o ad.buffers

\* The number of bytes in the buffers of all nodes of an array description.
RECURSIVE BufferBytes(_)
BufferBytes(ad) ==
    Sum([i \in DOMAIN ad.buffers |-> Len(ad.buffers[i])])
        + Sum([i \in DOMAIN ad.child_data |-> BufferBytes(ad.child_data[i])])

\* C19: the byte extraction appends to the output the buffers of all nodes,
\* depth first, the children of a node (in child order) before the node's own
\* buffers (in buffer order), and nothing else: the bytes added are as many
\* as the buffers of all nodes hold.
C19_DepthFirstBytes ==
    bpc = "bytes"
        => /\ bback.val = bout.val \o Concat(BuffersDepthFirst(bdata.val))
           /\ Len(bback.val) = Len(bout.val) + BufferBytes(bdata.val)

\* A node with two buffers of its own over a leaf and a child that has a
\* child was extracted.
C19_Witness ==
    /\ bpc = "bytes"
    /\ Len(bdata.val.buffers) = 2
    /\ Len(bdata.val.child_data) = 2
    /\ \E i \in 1..2 : bdata.val.child_data[i].child_data # <<>>
    /\ Len(bback.val) > 4

-----------------------------------------------------------------------------
(* Properties of the CompFn. *)

\* The index (from 0) the tensor of the argument at position arg has in the
\* output tuple.
TuplePositions(inner, arg) ==
    {i - 1 : i \in {j \in DOMAIN inner.items : inner.items[j].arg = arg}}

\* C20: for every list of arguments, each mutably borrowed argument has one
\* setup_alias call, whose output index is the position of that argument's
\* tensor in the output tuple of build_expr (the result at index 0, the
\* mutable parameters after it), and no two of them get the same index.
C20_AliasMatchesTuple ==
    cpc = "built"
        => /\ {caliases[i].arg : i \in DOMAIN caliases}
                 = {arg \in DOMAIN cargs : is_mut_borrowed(cargs[arg])}
           /\ \A i \in DOMAIN caliases :
                 TuplePositions(cinner.val, caliases[i].arg) = {caliases[i].alias_index}
           /\ \A i, j \in DOMAIN caliases :
                 caliases[i].alias_index = caliases[j].alias_index => i = j

\* The positions of the arguments that are tensors, by value or mutably
\* borrowed, in argument order.
TensorArgs(args) == SelectSeq([i \in DOMAIN args |-> i], LAMBDA i : args[i] # "builder")

\* The parameters are numbered from 0 in the order of the tensor arguments.
ParametersInArgumentOrder ==
    /\ Len(cparams) = Len(TensorArgs(cargs))
    /\ \A k \in DOMAIN cparams :
          /\ cparams[k].number = k - 1
          /\ cparams[k].arg = TensorArgs(cargs)[k]

\* The parameter numbers from_builder gave the argument at position arg.
ParameterNumbers(arg) == {cparams[k].number : k \in {j \in DOMAIN cparams : cparams[j].arg = arg}}

\* C21: after compute on a fresh Builder the tensor arguments are the
\* parameters 0, 1, .. in argument order (0..N-1 when all N arguments are
\* tensors), and the parameter index handed to setup_alias for a mutably
\* borrowed argument is the parameter number from_builder gives that argument.
C21_AliasParameterIndex ==
    cpc \in {"computed", "built"}
        => /\ ParametersInArgumentOrder
           /\ \A i \in DOMAIN caliases :
                 ParameterNumbers(caliases[i].arg) = {caliases[i].param_index}
====
